---- MODULE Spec2Model ----
(***************************************************************************)
(* Advertisement broadcaster of internal/advertisement-operator:           *)
(* StartBroadcaster discovers the peer descriptors (ConfigMaps) and starts *)
(* one GenerateAdvertisement goroutine per descriptor; each goroutine      *)
(* connects to its peer with a bounded retry and then loops                *)
(* list nodes -> CreateAdvertisement -> CreateOrUpdate -> go once.Do(watch)*)
(* -> sleep.  Times are in seconds.                                        *)
(***************************************************************************)
EXTENDS Integers, Sequences, FiniteSets, TLC

----------------------------------------------------------------------------
(* Bounds of the model *)

\* number of ConfigMaps in the "default" namespace
MaxConfigMaps == 2
\* publish cycles the tasks of one run are followed through, all together
MaxCycles == 2
\* seconds the wall clock may advance between two consecutive time.Now() calls
\* of one build, and in all while the tasks of one run are not sleeping
MaxClockStep == 1
\* nodes in a node list given to the advertisement builder
MaxNodes == 2

----------------------------------------------------------------------------
(* Program constants *)

\* time.Minute, in seconds
Minute == 60
\* retry < 3
RetryBudget == 3
\* time.Sleep(1 * time.Minute)
RetryDelay == 1 * Minute
\* time.Sleep(10 * time.Minute)
PublishInterval == 10 * Minute
\* time.Now().Add(30 * time.Minute)
TimeToLive == 30 * Minute

KubeconfigPrefix == "foreign-kubeconfig"
KubeconfigIdPrefix == "foreign-kubeconfig-"
DefaultPodCIDR == "172.17.0.0/16"

\* corev1.ResourceCPU, corev1.ResourceMemory, corev1.ResourcePods
ResourceCPU == "cpu"
ResourceMemory == "memory"
ResourcePods == "pods"

----------------------------------------------------------------------------
(* strings *)

\* strings.HasPrefix
HasPrefix(s, prefix) ==
  /\ Len(s) >= Len(prefix)
  /\ SubSeq(s, 1, Len(prefix)) = prefix

\* s[n:] panics when n > len(s)
SliceFromPanics(s, n) == n > Len(s)

\* s[n:] (n counts bytes from 0)
SliceFrom(s, n) == SubSeq(s, n + 1, Len(s))

RECURSIVE SplitAt(_, _, _, _)
\* the tokens of s from position start on, the scan being at position i
SplitAt(s, sep, start, i) ==
  IF i > Len(s) THEN <<SubSeq(s, start, Len(s))>>
  ELSE IF SubSeq(s, i, i) = sep
       THEN <<SubSeq(s, start, i - 1)>> \o SplitAt(s, sep, i + 1, i + 1)
       ELSE SplitAt(s, sep, start, i + 1)

\* strings.Split with a one-character separator
Split(s, sep) == SplitAt(s, sep, 1, 1)

----------------------------------------------------------------------------
(* The advertisement builder *)

\* a sum whose loop starts at the second node
SumOf_SkipsFirst(nodeList, kind) ==
  LET RECURSIVE Rest(_)
      Rest(l) == IF l = <<>> THEN 0 ELSE Head(l).allocatable[kind] + Rest(Tail(l))
  IN  IF nodeList = <<>> THEN 0 ELSE Rest(Tail(nodeList))

RECURSIVE SumOf(_, _)
\* Quantity.Add over the nodes' allocatable values of one kind
SumOf(nodeList, kind) ==
  IF nodeList = <<>> THEN 0
  ELSE Head(nodeList).allocatable[kind] + SumOf(Tail(nodeList), kind)

RECURSIVE AppendImages(_)
\* images = append(images, image) for every image of every node, in order
AppendImages(nodeList) ==
  IF nodeList = <<>> THEN <<>>
  ELSE Head(nodeList).images \o AppendImages(Tail(nodeList))

\* GetClusterResources: the availability and the images
GetClusterResources(nodeList) ==
  [ availability |-> (ResourceCPU :> SumOf(nodeList, ResourceCPU))
                     @@ (ResourceMemory :> SumOf(nodeList, ResourceMemory))
                     @@ (ResourcePods :> SumOf(nodeList, ResourcePods)),
    images |-> AppendImages(nodeList) ]

RECURSIVE PriceNames(_, _)
\* prices[name] = 5 for every name, later writes replacing earlier ones
PriceNames(prices, names) ==
  IF names = <<>> THEN prices
  ELSE PriceNames((Head(names) :> "5") @@ prices, Tail(names))

RECURSIVE PriceImages(_, _)
PriceImages(prices, images) ==
  IF images = <<>> THEN prices
  ELSE PriceImages(PriceNames(prices, Head(images).names), Tail(images))

\* a price function that forgets the images
ComputePrices_NoImages(images) ==
  (ResourceMemory :> "2Gi") @@ (ResourceCPU :> "1")

\* ComputePrices: quantities are written in their canonical form
ComputePrices(images) ==
  PriceImages((ResourceMemory :> "2Gi") @@ (ResourceCPU :> "1"), images)

\* nodes[0] on an empty slice panics
GetPodCIDRPanics(nodeList) == Len(nodeList) = 0

\* a GetPodCIDR that wants more than two tokens
GetPodCIDR_MoreThanTwo(nodeList) ==
  LET token == Split(nodeList[1].podCIDR, ".")
  IN  IF Len(token) > 2
      THEN token[1] \o "." \o token[2] \o "." \o "0" \o "." \o "0/16"
      ELSE DefaultPodCIDR

\* GetPodCIDR of a non-empty node list
GetPodCIDR(nodeList) ==
  LET token == Split(nodeList[1].podCIDR, ".")
  IN  IF Len(token) >= 2
      THEN token[1] \o "." \o token[2] \o "." \o "0" \o "." \o "0/16"
      ELSE DefaultPodCIDR

\* the object name of the advertisement
AdvertisementName(clusterId) == "advertisement-" \o clusterId

\* CreateAdvertisement panics where GetPodCIDR does
CreateAdvertisementPanics(nodeList) == GetPodCIDRPanics(nodeList)

\* a builder that names the object after the time of the build as well
CreateAdvertisement_TimestampedName(nodeList, clusterId, gatewayIP, gatewayPrivateIp, now1, now2) ==
  LET res == GetClusterResources(nodeList)
      prices == ComputePrices(res.images)
  IN  [ Name |-> AdvertisementName(clusterId) \o "-" \o ToString(now1),
        Namespace |-> "default",
        ClusterId |-> clusterId,
        Images |-> res.images,
        Availability |-> res.availability,
        Prices |-> prices,
        Network |-> [ PodCIDR |-> GetPodCIDR(nodeList),
                      GatewayIP |-> gatewayIP,
                      GatewayPrivateIP |-> gatewayPrivateIp ],
        Timestamp |-> now1,
        TimeToLive |-> now2 + TimeToLive ]

\* CreateAdvertisement; now1 and now2 are the results of its two time.Now()
\* calls, in evaluation order
CreateAdvertisement(nodeList, clusterId, gatewayIP, gatewayPrivateIp, now1, now2) ==
  LET res == GetClusterResources(nodeList)
      prices == ComputePrices(res.images)
  IN  [ Name |-> AdvertisementName(clusterId),
        Namespace |-> "default",
        ClusterId |-> clusterId,
        Images |-> res.images,
        Availability |-> res.availability,
        Prices |-> prices,
        Network |-> [ PodCIDR |-> GetPodCIDR(nodeList),
                      GatewayIP |-> gatewayIP,
                      GatewayPrivateIP |-> gatewayPrivateIp ],
        Timestamp |-> now1,
        TimeToLive |-> now2 + TimeToLive ]

----------------------------------------------------------------------------
(* CreateOrUpdate of pkg/advertisement-operator: the upsert on the peer's  *)
(* object store.  A store is the set of advertisement objects it holds.    *)

\* the object of the store with the name and namespace of adv, if any
Existing(objects, adv) ==
  {o \in objects : o.Name = adv.Name /\ o.Namespace = adv.Namespace}

\* create the object if the store has none of that name, else replace it
CreateOrUpdate(objects, adv) ==
  (objects \ Existing(objects, adv)) \cup {adv}

\* client.Get of an object by name
Get(objects, name) == {o \in objects : o.Name = name /\ o.Namespace = "default"}

----------------------------------------------------------------------------
(* The environment *)

\* names of the ConfigMaps the namespace may hold, in the order the API
\* server lists them (by name)
ConfigMapNames ==
  << "foreign-kubeconfig", "foreign-kubeconfig-peerA",
     "foreign-kubeconfig-peerB", "kube-root-ca.crt" >>

RECURSIVE Ascending(_)
\* the elements of a set of integers, in increasing order
Ascending(S) ==
  IF S = {} THEN <<>>
  ELSE LET m == CHOOSE x \in S : \A y \in S : x <= y
       IN  <<m>> \o Ascending(S \ {m})

\* the lists ConfigMaps("default").List may return
ConfigMapLists ==
  { [k \in 1..Cardinality(S) |-> ConfigMapNames[Ascending(S)[k]]] :
      S \in {T \in SUBSET (1..Len(ConfigMapNames)) : Cardinality(T) <= MaxConfigMaps} }

NodeA ==
  [ allocatable |-> (ResourceCPU :> 4) @@ (ResourceMemory :> 8) @@ (ResourcePods :> 110),
    images |-> << [names |-> <<"app:v1">>] >>,
    podCIDR |-> "10.32.0.5/24" ]

NodeB ==
  [ allocatable |-> (ResourceCPU :> 2) @@ (ResourceMemory :> 4) @@ (ResourcePods :> 55),
    images |-> << [names |-> <<"app:v1", "db:v2">>], [names |-> <<>>] >>,
    podCIDR |-> "nocidr" ]

\* the node lists Nodes().List may return in a publish cycle: no node, one
\* node, or the two nodes; the list of one cycle need not be that of the last
Inventories == { <<>>, <<NodeA>>, <<NodeA, NodeB>> }

\* the clusterId argument of StartBroadcaster
ClusterIds == {"cluster-1"}

Tasks == 1..MaxConfigMaps

\* the zero value of the adv variable of a task that built nothing yet
NoAdv == [Name |-> ""]

----------------------------------------------------------------------------
VARIABLES
  cancelled,        \* the context of main was cancelled on SIGINT or SIGTERM
  exited,           \* main returned: the process exited
  build,            \* one CreateAdvertisement call on its own: inputs and result
  args,             \* arguments of StartBroadcaster
  configMaps,       \* the ConfigMaps of the namespace, as listed
  mainPc,           \* position of StartBroadcaster
  startErr,         \* the error StartBroadcaster logged, "" if none
  next,             \* index of the range loop over configMaps.Items
  wg,               \* counter of the WaitGroup
  crashed,          \* the process died of an unrecovered panic
  panicTask,        \* the task whose goroutine panicked, 0 if none
  pc,               \* position of each GenerateAdvertisement goroutine
  foreignClusterId, \* its foreignClusterId
  retry,            \* its retry counter
  remoteClient,     \* whether its remoteClient is set
  attempts,         \* outcomes of its NewCRDClient calls, in order
  elapsed,          \* seconds it has spent in time.Sleep
  clock,            \* the wall clock, in seconds since the process started
  spent,            \* seconds of it that passed outside the sleeps of the tasks
  wakeAt,           \* per task, the earliest time the time.Sleep it is in ends
  sleepFor,         \* duration of the sleep it is in or was last in
  err,              \* its err variable: the failed call, "" for nil
  nodes,            \* nodes.Items of its current cycle
  adv,              \* adv of its current cycle
  cycles,           \* publish cycles it has run
  published,        \* CreateOrUpdate calls of it that succeeded
  onceState,        \* its sync.Once: "fresh", "running" or "done"
  pending,          \* its `go once.Do` goroutines not yet in once.Do
  blocked,          \* its goroutines blocked in once.Do
  watcherStarts,    \* WatchAdvertisement calls made for it
  store,            \* advertisement objects in its peer's store
  found             \* the objects its last CreateOrUpdate found under the name

mainVars == <<cancelled, exited, build, args, configMaps, mainPc, startErr, next>>
connVars == <<foreignClusterId, retry, remoteClient, attempts>>
cycleVars == <<nodes, adv, cycles, published, store, found>>
onceVars == <<onceState, blocked, watcherStarts>>
timeVars == <<clock, spent, wakeAt>>
vars == <<cancelled, exited, build, args, configMaps, mainPc, startErr, next, wg, crashed, panicTask, pc,
          foreignClusterId, retry, remoteClient, attempts, elapsed, clock, spent,
          wakeAt, sleepFor, err, nodes, adv, cycles, published, onceState, pending, blocked,
          watcherStarts, store, found>>

\* the later of two times
Later(a, b) == IF a >= b THEN a ELSE b

\* the process runs: it has neither died of a panic nor exited
Alive == ~crashed /\ ~exited

\* the state before StartBroadcaster runs
InitBroadcaster ==
  /\ cancelled = FALSE
  /\ exited = FALSE
  /\ args \in [clusterId : ClusterIds, gatewayIP : {"203.0.113.7"},
               gatewayPrivateIP : {"10.0.0.1"}]
  /\ configMaps \in ConfigMapLists
  /\ mainPc = "start"
  /\ startErr = ""
  /\ next = 1
  /\ wg = 0
  /\ crashed = FALSE
  /\ panicTask = 0
  /\ pc = [i \in Tasks |-> "none"]
  /\ foreignClusterId = [i \in Tasks |-> ""]
  /\ retry = [i \in Tasks |-> 0]
  /\ remoteClient = [i \in Tasks |-> FALSE]
  /\ attempts = [i \in Tasks |-> <<>>]
  /\ elapsed = [i \in Tasks |-> 0]
  /\ clock = 0
  /\ spent = 0
  /\ wakeAt = [i \in Tasks |-> 0]
  /\ sleepFor = [i \in Tasks |-> 0]
  /\ err = [i \in Tasks |-> ""]
  /\ nodes = [i \in Tasks |-> <<>>]
  /\ adv = [i \in Tasks |-> NoAdv]
  /\ cycles = [i \in Tasks |-> 0]
  /\ published = [i \in Tasks |-> 0]
  /\ onceState = [i \in Tasks |-> "fresh"]
  /\ pending = [i \in Tasks |-> 0]
  /\ blocked = [i \in Tasks |-> 0]
  /\ watcherStarts = [i \in Tasks |-> 0]
  /\ store = [i \in Tasks |-> {}]
  /\ found = [i \in Tasks |-> {}]

Init ==
  /\ build = [pc |-> "off"]
  /\ InitBroadcaster

----------------------------------------------------------------------------
(* StartBroadcaster *)

\* a StartBroadcaster that logs the error and goes on
AfterDiscoveryError_GoOn == "spawn"

\* where StartBroadcaster goes after a failed client creation or listing:
\* it logs the error and returns
AfterDiscoveryError == "returned"

\* the clients are created and the ConfigMaps listed; any of the three calls
\* may fail
Discover ==
  /\ Alive
  /\ mainPc = "start"
  /\ \E e \in {"", "NewK8sClient", "NewCRDClient", "ListConfigMaps"} :
       IF e # ""
       THEN /\ startErr' = e
            /\ mainPc' = AfterDiscoveryError
       ELSE /\ startErr' = ""
            /\ mainPc' = "spawn"
  /\ UNCHANGED <<timeVars, cancelled, exited, build, args, configMaps, next, wg, crashed, panicTask, pc, connVars,
                 elapsed, sleepFor, err, cycleVars, pending, onceVars>>

\* one iteration of the range loop over configMaps.Items
SpawnNext ==
  /\ Alive
  /\ mainPc = "spawn"
  /\ next <= Len(configMaps)
  /\ IF HasPrefix(configMaps[next], KubeconfigPrefix)
     THEN /\ wg' = wg + 1
          /\ pc' = [pc EXCEPT ![next] = "start"]
     ELSE UNCHANGED <<wg, pc>>
  /\ next' = next + 1
  /\ UNCHANGED <<timeVars, cancelled, exited, build, args, configMaps, mainPc, startErr, crashed, panicTask, connVars,
                 elapsed, sleepFor, err, cycleVars, pending, onceVars>>

\* the range loop ends: StartBroadcaster reaches wg.Wait()
SpawnDone ==
  /\ Alive
  /\ mainPc = "spawn"
  /\ next > Len(configMaps)
  /\ mainPc' = "wait"
  /\ UNCHANGED <<timeVars, cancelled, exited, build, args, configMaps, startErr, next, wg, crashed, panicTask, pc,
                 connVars, elapsed, sleepFor, err, cycleVars, pending, onceVars>>

\* a StartBroadcaster that does not wait for its tasks
WaitReturns_NoWait ==
  /\ Alive
  /\ mainPc = "wait"
  /\ mainPc' = "returned"
  /\ UNCHANGED <<timeVars, cancelled, exited, build, args, configMaps, startErr, next, wg, crashed, panicTask, pc,
                 connVars, elapsed, sleepFor, err, cycleVars, pending, onceVars>>

\* wg.Wait() returns once the counter is zero
WaitReturns ==
  /\ Alive
  /\ mainPc = "wait"
  /\ wg = 0
  /\ mainPc' = "returned"
  /\ UNCHANGED <<timeVars, cancelled, exited, build, args, configMaps, startErr, next, wg, crashed, panicTask, pc,
                 connVars, elapsed, sleepFor, err, cycleVars, pending, onceVars>>

----------------------------------------------------------------------------
(* GenerateAdvertisement *)

\* the goroutine returns: the deferred wg.Done() runs
Return(i) ==
  /\ pc' = [pc EXCEPT ![i] = "done"]
  /\ wg' = wg - 1

\* the goroutine panics: its deferred wg.Done() runs, and, nothing
\* recovering the panic, the runtime goes on to end the process; the other
\* goroutines run until it has
Panic(i) ==
  /\ pc' = [pc EXCEPT ![i] = "panic"]
  /\ wg' = wg - 1
  /\ panicTask' = IF panicTask = 0 THEN i ELSE panicTask
  /\ UNCHANGED crashed

\* the runtime ends the process after the unrecovered panic of a goroutine
ProcessDies ==
  /\ Alive
  /\ panicTask # 0
  /\ crashed' = TRUE
  /\ UNCHANGED <<timeVars, mainVars, wg, panicTask, pc, connVars, elapsed, sleepFor,
                 err, cycleVars, pending, onceVars>>

\* foreignClusterId = cm.Name[len("foreign-kubeconfig-"):]
ExtractId(i) ==
  /\ Alive
  /\ pc[i] = "start"
  /\ IF SliceFromPanics(configMaps[i], Len(KubeconfigIdPrefix))
     THEN /\ Panic(i)
          /\ UNCHANGED foreignClusterId
     ELSE /\ foreignClusterId' =
               [foreignClusterId EXCEPT ![i] = SliceFrom(configMaps[i], Len(KubeconfigIdPrefix))]
          /\ pc' = [pc EXCEPT ![i] = "connect"]
          /\ UNCHANGED <<wg, crashed, panicTask>>
  /\ UNCHANGED <<timeVars, mainVars, retry, remoteClient, attempts, elapsed, sleepFor,
                 err, cycleVars, pending, onceVars>>

\* one NewCRDClient call of the retry loop; on an error the task logs it and
\* sleeps, otherwise it breaks out of the loop and enters the publish loop
Connect(i) ==
  /\ Alive
  /\ pc[i] = "connect"
  /\ retry[i] < RetryBudget
  /\ \E ok \in BOOLEAN :
       /\ attempts' = [attempts EXCEPT ![i] = Append(@, ok)]
       /\ IF ok
          THEN /\ remoteClient' = [remoteClient EXCEPT ![i] = TRUE]
               /\ err' = [err EXCEPT ![i] = ""]
               /\ pc' = [pc EXCEPT ![i] = "loop"]
               /\ UNCHANGED <<sleepFor, wakeAt>>
          ELSE /\ err' = [err EXCEPT ![i] = "NewCRDClient"]
               /\ sleepFor' = [sleepFor EXCEPT ![i] = RetryDelay]
               /\ wakeAt' = [wakeAt EXCEPT ![i] = clock + RetryDelay]
               /\ pc' = [pc EXCEPT ![i] = "retry_sleep"]
               /\ UNCHANGED remoteClient
  /\ UNCHANGED <<clock, spent, mainVars, wg, crashed, panicTask, foreignClusterId, retry,
                 elapsed, cycleVars, pending, onceVars>>

\* a task that logs the terminal error and enters the publish loop all the same
AfterRetriesExhausted_GoOn == "loop"

\* where the task goes when retry == 3 after the loop: it logs the terminal
\* error and returns
AfterRetriesExhausted == "done"

\* the retry sleep ends, retry++ ; with the budget used up the task logs the
\* terminal error and returns
RetryWake(i) ==
  /\ Alive
  /\ pc[i] = "retry_sleep"
  /\ elapsed' = [elapsed EXCEPT ![i] = @ + RetryDelay]
  /\ clock' = Later(clock, wakeAt[i])
  /\ wakeAt' = [wakeAt EXCEPT ![i] = 0]
  /\ retry' = [retry EXCEPT ![i] = @ + 1]
  /\ IF retry[i] + 1 < RetryBudget
     THEN /\ pc' = [pc EXCEPT ![i] = "connect"]
          /\ UNCHANGED wg
     ELSE /\ IF AfterRetriesExhausted = "done"
             THEN Return(i)
             ELSE /\ pc' = [pc EXCEPT ![i] = AfterRetriesExhausted]
                  /\ UNCHANGED wg
  /\ UNCHANGED <<spent, mainVars, crashed, panicTask, foreignClusterId, remoteClient,
                 attempts, sleepFor, err, cycleVars, pending, onceVars>>

\* where the task goes when Nodes().List fails: it logs the error and returns
AfterListError == "done"

\* a task that goes back to the connection loop on a failed CreateOrUpdate
AfterPublishError_Reconnect == "connect"

\* a task that returns on a failed CreateOrUpdate as it does on a failed listing
AfterPublishError_Return == "done"

\* where the task goes when CreateOrUpdate fails: it logs the error and
\* falls through to the sleep
AfterPublishError == "cycle_sleep"

RECURSIVE SumUpTo(_, _)
SumUpTo(f, n) == IF n = 0 THEN 0 ELSE f[n] + SumUpTo(f, n - 1)

\* publish cycles run so far, over all tasks, the ones waiting for their
\* CreateOrUpdate call included
TotalCycles ==
  SumUpTo(cycles, MaxConfigMaps) + Cardinality({i \in Tasks : pc[i] = "publish"})

\* the first time.Now() of a CreateAdvertisement call: the wall clock of the
\* process, which is at least the end of every sleep that has ended, and
\* step seconds more for the time that passed in calls
Now(step) == clock + step

\* the second time.Now() of that call: the clock may have advanced again
NowAfter(step, again) == Now(step) + again

\* Nodes().List returns in a pass of the publish loop: on an error the task
\* logs it and returns; otherwise it builds the advertisement, which may
\* panic, and calls CreateOrUpdate
ListNodes(i) ==
  /\ Alive
  /\ pc[i] = "loop"
  /\ TotalCycles < MaxCycles
  /\ \E listOk \in BOOLEAN :
       IF ~listOk
       THEN /\ err' = [err EXCEPT ![i] = "ListNodes"]
            /\ IF AfterListError = "done"
               THEN Return(i)
               ELSE /\ pc' = [pc EXCEPT ![i] = AfterListError]
                    /\ UNCHANGED wg
            /\ sleepFor' = [sleepFor EXCEPT ![i] =
                              IF AfterListError = "cycle_sleep" THEN PublishInterval ELSE @]
            /\ UNCHANGED <<panicTask, nodes, adv, clock, spent>>
       ELSE \E items \in Inventories :
              /\ nodes' = [nodes EXCEPT ![i] = items]
              /\ err' = [err EXCEPT ![i] = ""]
              /\ UNCHANGED sleepFor
              /\ IF CreateAdvertisementPanics(items)
                 THEN /\ Panic(i)
                      /\ UNCHANGED <<adv, clock, spent>>
                 ELSE \E step, again \in 0..MaxClockStep :
                        /\ spent + step + again <= MaxClockStep
                        /\ adv' = [adv EXCEPT ![i] =
                                     CreateAdvertisement(items, args.clusterId,
                                       args.gatewayIP, args.gatewayPrivateIP,
                                       Now(step), NowAfter(step, again))]
                        /\ clock' = NowAfter(step, again)
                        /\ spent' = spent + step + again
                        /\ pc' = [pc EXCEPT ![i] = "publish"]
                        /\ UNCHANGED <<wg, panicTask>>
  /\ UNCHANGED <<wakeAt, mainVars, crashed, connVars, elapsed, cycles, published, store,
                 found, pending, onceVars>>

\* pkg.CreateOrUpdate returns: on success the task runs `go once.Do`, on an
\* error it logs it; either way it goes on to its time.Sleep
Publish(i) ==
  /\ Alive
  /\ pc[i] = "publish"
  /\ cycles' = [cycles EXCEPT ![i] = @ + 1]
  /\ \E pubOk \in BOOLEAN :
       IF pubOk
       THEN /\ found' = [found EXCEPT ![i] = Existing(store[i], adv[i])]
            /\ store' = [store EXCEPT ![i] = CreateOrUpdate(@, adv[i])]
            /\ published' = [published EXCEPT ![i] = @ + 1]
            /\ pending' = [pending EXCEPT ![i] = @ + 1]
            /\ pc' = [pc EXCEPT ![i] = "cycle_sleep"]
            /\ sleepFor' = [sleepFor EXCEPT ![i] = PublishInterval]
            /\ wakeAt' = [wakeAt EXCEPT ![i] = clock + PublishInterval]
            /\ err' = [err EXCEPT ![i] = ""]
            /\ UNCHANGED wg
       ELSE /\ err' = [err EXCEPT ![i] = "CreateOrUpdate"]
            /\ IF AfterPublishError = "done"
               THEN Return(i)
               ELSE /\ pc' = [pc EXCEPT ![i] = AfterPublishError]
                    /\ UNCHANGED wg
            /\ sleepFor' = [sleepFor EXCEPT ![i] =
                 IF AfterPublishError = "cycle_sleep"
                 THEN PublishInterval ELSE @]
            /\ wakeAt' = [wakeAt EXCEPT ![i] =
                 IF AfterPublishError = "cycle_sleep"
                 THEN clock + PublishInterval ELSE @]
            /\ UNCHANGED <<store, found, published, pending>>
  /\ UNCHANGED <<clock, spent, mainVars, crashed, panicTask, connVars, elapsed, nodes, adv,
                 onceVars>>

\* time.Sleep(10 * time.Minute) ends and the loop starts over: nodes, err and
\* adv are declared in the body of the loop, so the next pass has new ones
CycleWake(i) ==
  /\ Alive
  /\ pc[i] = "cycle_sleep"
  /\ elapsed' = [elapsed EXCEPT ![i] = @ + PublishInterval]
  /\ clock' = Later(clock, wakeAt[i])
  /\ wakeAt' = [wakeAt EXCEPT ![i] = 0]
  /\ pc' = [pc EXCEPT ![i] = "loop"]
  /\ nodes' = [nodes EXCEPT ![i] = <<>>]
  /\ adv' = [adv EXCEPT ![i] = NoAdv]
  /\ err' = [err EXCEPT ![i] = ""]
  /\ found' = [found EXCEPT ![i] = {}]
  /\ UNCHANGED <<spent, mainVars, wg, crashed, panicTask, connVars, sleepFor, cycles,
                 published, store, pending, onceVars>>

\* a task that starts the watcher in every goroutine, without the Once
OnceDo_Unguarded(i) ==
  /\ Alive
  /\ pending[i] > 0
  /\ pending' = [pending EXCEPT ![i] = @ - 1]
  /\ onceState' = [onceState EXCEPT ![i] = "running"]
  /\ watcherStarts' = [watcherStarts EXCEPT ![i] = @ + 1]
  /\ UNCHANGED blocked
  /\ UNCHANGED <<timeVars, mainVars, wg, crashed, panicTask, pc, connVars, elapsed,
                 sleepFor, err, cycleVars>>

\* a goroutine started by `go once.Do(f)` enters once.Do: the first one runs
\* f, which calls WatchAdvertisement; one arriving while f runs blocks on the
\* mutex of the Once; one arriving after f returned returns at once
OnceDo(i) ==
  /\ Alive
  /\ pending[i] > 0
  /\ pending' = [pending EXCEPT ![i] = @ - 1]
  /\ CASE onceState[i] = "fresh" ->
            /\ onceState' = [onceState EXCEPT ![i] = "running"]
            /\ watcherStarts' = [watcherStarts EXCEPT ![i] = @ + 1]
            /\ UNCHANGED blocked
       [] onceState[i] = "running" ->
            /\ blocked' = [blocked EXCEPT ![i] = @ + 1]
            /\ UNCHANGED <<onceState, watcherStarts>>
       [] onceState[i] = "done" ->
            UNCHANGED <<onceState, blocked, watcherStarts>>
  /\ UNCHANGED <<timeVars, mainVars, wg, crashed, panicTask, pc, connVars, elapsed,
                 sleepFor, err, cycleVars>>

\* WatchAdvertisement returns: the Once is done and the goroutines blocked
\* on it return without running f
WatcherReturns(i) ==
  /\ Alive
  /\ onceState[i] = "running"
  /\ onceState' = [onceState EXCEPT ![i] = "done"]
  /\ blocked' = [blocked EXCEPT ![i] = 0]
  /\ UNCHANGED <<timeVars, mainVars, wg, crashed, panicTask, pc, connVars, elapsed,
                 sleepFor, err, cycleVars, pending, watcherStarts>>

Next ==
  \/ Discover
  \/ SpawnNext
  \/ SpawnDone
  \/ WaitReturns
  \/ \E i \in Tasks : ExtractId(i)
  \/ \E i \in Tasks : Connect(i)
  \/ \E i \in Tasks : RetryWake(i)
  \/ \E i \in Tasks : ListNodes(i)
  \/ \E i \in Tasks : Publish(i)
  \/ \E i \in Tasks : CycleWake(i)
  \/ \E i \in Tasks : OnceDo(i)
  \/ \E i \in Tasks : WatcherReturns(i)
  \/ ProcessDies

Spec == Init /\ [][Next]_vars

----------------------------------------------------------------------------
(* Shutdown.  No caller of StartBroadcaster is under src/.  The process of  *)
(* the specification, which takes an external shutdown signal, is modelled *)
(* as a host of the broadcaster that handles the signal the way the main   *)
(* of cmd/virtual-kubelet does: the handler cancels a context.  Neither    *)
(* StartBroadcaster nor GenerateAdvertisement takes a context: the tasks   *)
(* sleep in time.Sleep and publish under context.Background(), so they     *)
(* have nothing to read the cancellation from.                             *)

\* <-sig; cancel()
Cancel ==
  /\ Alive
  /\ ~cancelled
  /\ cancelled' = TRUE
  /\ UNCHANGED <<timeVars, exited, build, args, configMaps, mainPc, startErr, next, wg, crashed,
                 panicTask, pc, connVars, elapsed, sleepFor, err, cycleVars,
                 pending, onceVars>>

\* the process exits through main: registerKubernetes fails or
\* rootCmd.Execute() returns an error other than context.Canceled, and main
\* calls Fatal; or Execute returns nil or context.Canceled, and main returns.
\* Every goroutine ends with the process, whatever it is doing.
MainReturns ==
  /\ Alive
  /\ exited' = TRUE
  /\ UNCHANGED <<timeVars, cancelled, build, args, configMaps, mainPc, startErr, next,
                 wg, crashed, panicTask, pc, connVars, elapsed, sleepFor, err,
                 cycleVars, pending, onceVars>>

NextShutdown ==
  \/ Next
  \/ Cancel
  \/ MainReturns

\* the Go scheduler runs every goroutine that can run: StartBroadcaster and
\* the tasks take their steps, their calls and sleeps return, a goroutine
\* started for once.Do reaches it, and the runtime ends a process whose
\* goroutine panicked.  Nothing under src/ makes the host exit, before or
\* after the signal, and WatchAdvertisement may watch for ever: neither
\* MainReturns nor WatcherReturns is bound to happen.
Fairness ==
  /\ WF_vars(Discover) /\ WF_vars(SpawnNext) /\ WF_vars(SpawnDone)
  /\ WF_vars(WaitReturns)
  /\ WF_vars(ProcessDies)
  /\ \A i \in Tasks :
       /\ WF_vars(ExtractId(i)) /\ WF_vars(Connect(i)) /\ WF_vars(RetryWake(i))
       /\ WF_vars(ListNodes(i)) /\ WF_vars(Publish(i)) /\ WF_vars(CycleWake(i))
       /\ WF_vars(OnceDo(i))

SpecShutdown == Init /\ [][NextShutdown]_vars /\ Fairness

----------------------------------------------------------------------------
(* CreateAdvertisement on its own, over node lists of up to MaxNodes nodes *)
(* and with the clock advancing between its two reads                      *)

NodeC ==
  [ allocatable |-> (ResourceCPU :> 0) @@ (ResourceMemory :> 0) @@ (ResourcePods :> 0),
    images |-> << >>,
    podCIDR |-> "" ]

NodeD ==
  [ allocatable |-> (ResourceCPU :> 1) @@ (ResourceMemory :> 2) @@ (ResourcePods :> 10),
    images |-> << [names |-> <<"app:v1">>], [names |-> <<"app:v1", "web:v3">>] >>,
    podCIDR |-> "192.168.7.0/24" ]

NodeE ==
  [ allocatable |-> (ResourceCPU :> 16) @@ (ResourceMemory :> 64) @@ (ResourcePods :> 250),
    images |-> << [names |-> <<"web:v3">>] >>,
    podCIDR |-> "10.244" ]

BuildNodes == {NodeA, NodeB, NodeC, NodeD, NodeE}

\* the node lists of up to MaxNodes nodes
BuildNodeLists == UNION { [1..k -> BuildNodes] : k \in 0..MaxNodes }

BuildClusterIds == {"cluster-1", "cluster-2"}

broadcasterVars ==
  <<cancelled, exited, args, configMaps, mainPc, startErr, next, wg, crashed, panicTask, pc,
    foreignClusterId, retry, remoteClient, attempts, elapsed, clock, spent,
    wakeAt, sleepFor, err,
    nodes, adv, cycles, published, onceState, pending, blocked, watcherStarts,
    store, found>>

\* the res field of a build before GetClusterResources was called
NoResources == [availability |-> <<>>, images |-> <<>>]

InitBuild ==
  /\ \E nodeList \in BuildNodeLists, id \in BuildClusterIds,
        t \in 0..1, step \in 0..MaxClockStep :
       build = [ pc |-> "call", nodes |-> nodeList, clusterId |-> id,
                 now1 |-> t, now2 |-> t + step, adv |-> NoAdv,
                 resPc |-> "call", res |-> NoResources ]
  /\ InitBroadcaster
  /\ configMaps = <<>>

\* one call of CreateAdvertisement: it panics, or returns the advertisement
BuildAdvertisement ==
  /\ build.pc = "call"
  /\ IF CreateAdvertisementPanics(build.nodes)
     THEN build' = [build EXCEPT !.pc = "panic"]
     ELSE build' = [build EXCEPT
                      !.pc = "done",
                      !.adv = CreateAdvertisement(build.nodes, build.clusterId,
                                "203.0.113.7", "10.0.0.1", build.now1, build.now2)]
  /\ UNCHANGED broadcasterVars

\* one call of GetClusterResources on the node list
AggregateResources ==
  /\ build.pc # "off"
  /\ build.resPc = "call"
  /\ build' = [build EXCEPT !.resPc = "done", !.res = GetClusterResources(build.nodes)]
  /\ UNCHANGED broadcasterVars

NextBuild ==
  \/ BuildAdvertisement
  \/ AggregateResources

SpecBuild == InitBuild /\ [][NextBuild]_vars

----------------------------------------------------------------------------
(* Properties *)

\* the tasks StartBroadcaster started
Started(i) == pc[i] # "none"

\* the task is past its connection loop and has not ended
InPublishLoop(i) == pc[i] \in {"loop", "publish", "cycle_sleep"}

\* seconds task i has slept in completed publish-interval sleeps
SleptInLoop(i) ==
  PublishInterval * (IF pc[i] = "cycle_sleep" THEN cycles[i] - 1 ELSE cycles[i])

\* C1: in one task the watcher is started at most once: never while no
\* publish has succeeded, and exactly once when a publish has succeeded and
\* every goroutine started by `go once.Do` has entered once.Do, however many
\* publishes succeeded.
WatcherStartedOnce ==
  \A i \in Tasks :
    /\ watcherStarts[i] <= 1
    /\ published[i] = 0 => watcherStarts[i] = 0
    /\ (published[i] >= 1 /\ pending[i] = 0) => watcherStarts[i] = 1

\* two consecutive publishes succeeded and their goroutines ran: one start
WatcherStartedOnceWitness ==
  \E i \in Tasks :
    /\ published[i] = 2
    /\ cycles[i] = 2
    /\ pending[i] = 0
    /\ watcherStarts[i] = 1

\* C2: a task whose connector failed twice and then succeeded has slept
\* exactly two retry delays before its publish loop and is in (or past) the
\* loop with its client set; a task whose connector failed three times is in
\* its last retry sleep or has ended with the connection error, having run no
\* publish cycle and published nothing.
ConnectionRetry ==
  \A i \in Tasks :
    /\ attempts[i] = <<FALSE, FALSE, TRUE>> =>
         /\ remoteClient[i]
         /\ pc[i] \notin {"none", "start", "connect", "retry_sleep"}
         /\ elapsed[i] - SleptInLoop(i) = 2 * RetryDelay
    /\ attempts[i] = <<FALSE, FALSE, FALSE>> =>
         /\ ~remoteClient[i]
         /\ cycles[i] = 0 /\ published[i] = 0 /\ store[i] = {}
         /\ pc[i] \in {"retry_sleep", "done"}
         /\ pc[i] = "done" => (err[i] = "NewCRDClient" /\ retry[i] = RetryBudget)

\* one task published after two failed attempts, another ended after three
ConnectionRetryWitness ==
  \E i, j \in Tasks :
    /\ attempts[i] = <<FALSE, FALSE, TRUE>>
    /\ published[i] >= 1
    /\ attempts[j] = <<FALSE, FALSE, FALSE>>
    /\ pc[j] = "done"

\* C3: a task whose node listing failed is not ended by it: it is sleeping
\* the publish interval or back at the top of the loop.
SnapshotFailureNonFatal ==
  \A i \in Tasks : err[i] = "ListNodes" => InPublishLoop(i)

\* C4: the step in which CreateOrUpdate fails takes the task to the sleep of
\* the publish interval, the same as after a success, starts no goroutine for
\* the watcher and does not end the task; and the step that ends that sleep
\* takes the task to the top of the loop, ten minutes later.
PublishFailureNonFatal ==
  [][ \A i \in Tasks :
        /\ (cycles'[i] # cycles[i] /\ err'[i] = "CreateOrUpdate") =>
             /\ pc'[i] = "cycle_sleep"
             /\ sleepFor'[i] = 10 * Minute
             /\ pending'[i] = pending[i]
             /\ watcherStarts'[i] = watcherStarts[i]
             /\ published'[i] = published[i]
             /\ wg' = wg
        /\ (cycles'[i] # cycles[i] /\ err'[i] = "") => sleepFor'[i] = 10 * Minute
        /\ (pc[i] = "cycle_sleep" /\ pc'[i] # pc[i]) =>
             /\ pc'[i] = "loop"
             /\ elapsed'[i] = elapsed[i] + 10 * Minute ]_vars

\* the first publish of a task failed, and its second cycle ran and published
PublishFailureNonFatalWitness ==
  \E i \in Tasks :
    /\ cycles[i] = 2
    /\ published[i] = 1
    /\ err[i] = ""
    /\ pc[i] = "cycle_sleep"
    /\ store[i] # {}

\* C5: when the task of one peer has ended or failed, the task of another
\* peer that has not ended is not stopped: the process is alive.
PeerIsolation ==
  \A a, b \in Tasks :
    (a # b /\ pc[a] \in {"done", "panic"} /\ pc[b] \in {"start", "connect", "retry_sleep", "loop", "publish", "cycle_sleep"})
      => ~crashed

\* C6: a descriptor whose name is the bare prefix crashes nothing: its task
\* does not panic and the process stays alive.
MalformedDescriptorSkipped ==
  \A i \in Tasks :
    (i <= Len(configMaps) /\ configMaps[i] = "foreign-kubeconfig")
      => (pc[i] # "panic" /\ ~(crashed /\ panicTask = i))

\* C7: when a client creation or the listing of the ConfigMaps failed,
\* StartBroadcaster has returned and no task was started: no goroutine, no
\* connection attempt, no publish.
DiscoveryFailureFatal ==
  startErr # "" =>
    /\ mainPc = "returned"
    /\ wg = 0
    /\ \A i \in Tasks :
         /\ ~Started(i)
         /\ attempts[i] = <<>>
         /\ cycles[i] = 0 /\ published[i] = 0 /\ store[i] = {}

\* the listing failed in a namespace that holds a peer descriptor
DiscoveryFailureFatalWitness ==
  /\ startErr = "ListConfigMaps"
  /\ mainPc = "returned"
  /\ \E k \in 1..Len(configMaps) : configMaps[k] = "foreign-kubeconfig-peerA"

RECURSIVE NamesOf(_)
\* the names of the images of an image list
NamesOf(images) ==
  IF images = <<>> THEN {}
  ELSE {Head(images).names[k] : k \in 1..Len(Head(images).names)} \cup NamesOf(Tail(images))

\* C8 as stated: the price list of a built advertisement has an entry for
\* every resource kind of its availability (cpu, memory, pods) and for every
\* image name.
PriceListCoversSnapshot ==
  build.pc = "done" =>
    (DOMAIN build.adv.Availability \cup NamesOf(build.adv.Images))
       \subseteq DOMAIN build.adv.Prices

\* C8 amended: the price list of a built advertisement has an entry for cpu,
\* for memory and for every name of every image of the image list, and no
\* other entry: the pod slots of the availability have no price.
PriceListCoversCpuMemoryImages ==
  build.pc = "done" =>
    /\ DOMAIN build.adv.Availability = {"cpu", "memory", "pods"}
    /\ DOMAIN build.adv.Prices = {"cpu", "memory"} \cup NamesOf(build.adv.Images)

\* an advertisement built from two nodes with three image names between them
PriceListWitness ==
  /\ build.pc = "done"
  /\ build.nodes = <<NodeA, NodeB>>
  /\ DOMAIN build.adv.Prices = {"cpu", "memory", "app:v1", "db:v2"}

\* C9: the store of a peer holds at most one advertisement of the producer,
\* named "advertisement-<clusterId>"; right after a successful publish the
\* object read under that name is the advertisement built from the nodes
\* listed in that cycle (4 cpu, 8 memory, 110 pods and one image for the one
\* node; 6, 12, 165 and three images for the two), and an object the publish
\* found under the name, of an earlier cycle, is no longer in the store: it
\* was updated, no second record was created.
PublishUpsert ==
  \A i \in Tasks :
    /\ Cardinality({o \in store[i] : o.ClusterId = args.clusterId}) <= 1
    /\ \A o \in store[i] :
         o.Name = "advertisement-" \o args.clusterId /\ o.ClusterId = args.clusterId
    /\ (pc[i] = "cycle_sleep" /\ err[i] = "") =>
         /\ Get(store[i], "advertisement-" \o args.clusterId) = {adv[i]}
         /\ nodes[i] = <<NodeA>> =>
              /\ adv[i].Availability["cpu"] = 4
              /\ adv[i].Availability["memory"] = 8
              /\ adv[i].Availability["pods"] = 110
              /\ adv[i].Images = << [names |-> <<"app:v1">>] >>
         /\ nodes[i] = <<NodeA, NodeB>> =>
              /\ adv[i].Availability["cpu"] = 6
              /\ adv[i].Availability["memory"] = 12
              /\ adv[i].Availability["pods"] = 165
              /\ adv[i].Images = << [names |-> <<"app:v1">>],
                                    [names |-> <<"app:v1", "db:v2">>],
                                    [names |-> <<>>] >>
         /\ nodes[i] \in {<<NodeA>>, <<NodeA, NodeB>>}
         /\ found[i] = {} <=> published[i] = 1
         /\ \A o \in found[i] :
              /\ o.Name = adv[i].Name
              /\ o.Timestamp < adv[i].Timestamp
              /\ o \notin store[i]
         /\ adv[i].Timestamp >= elapsed[i]
         /\ adv[i].Timestamp <= clock

\* a first publish of the one node and, ten minutes later, a second of the
\* two nodes: the second found the record of 4 cpu under the name, and the
\* store now holds one record, of 6 cpu
PublishUpsertWitness ==
  \E i \in Tasks :
    /\ published[i] = 2
    /\ pc[i] = "cycle_sleep" /\ err[i] = ""
    /\ nodes[i] = <<NodeA, NodeB>>
    /\ \E o \in found[i] : o.Availability["cpu"] = 4 /\ o.Availability["pods"] = 110
    /\ Cardinality(store[i]) = 1
    /\ \A o \in store[i] :
         /\ o.Availability["cpu"] = 6 /\ o.Availability["pods"] = 165
         /\ o.Timestamp >= PublishInterval
         /\ o.Name = "advertisement-cluster-1"

\* C10: the expiry of a built advertisement is its creation time plus the
\* time to live of 30 minutes, whatever the clock did during the build.
ExpiryIsCreationPlusTTL ==
  build.pc = "done" => build.adv.TimeToLive = build.adv.Timestamp + 30 * Minute

\* the goroutine of task i is not running: it was never started, it has
\* returned or panicked, or the process has died or exited
Terminated(i) == pc[i] \in {"none", "done", "panic"} \/ ~Alive

\* no watcher of task i is running and no goroutine of it waits on its Once
WatcherTerminated(i) ==
  (onceState[i] # "running" /\ pending[i] = 0 /\ blocked[i] = 0) \/ ~Alive

Running ==
  {i \in Tasks : pc[i] \in {"start", "connect", "retry_sleep", "loop", "publish", "cycle_sleep"}}

\* C12: the WaitGroup counts the tasks that have not ended, so StartBroadcaster
\* has returned only when every task it started has ended, never while a
\* task is in its publish loop; and with no task started, wg.Wait() does not
\* block.
JoinBarrier ==
  /\ wg = Cardinality(Running)
  /\ mainPc = "returned" => \A i \in Tasks : pc[i] \in {"none", "done", "panic"}
  /\ (\E i \in Tasks : InPublishLoop(i)) => mainPc # "returned"
  /\ (mainPc = "wait" /\ Alive /\ \A i \in Tasks : pc[i] = "none")
       => ENABLED WaitReturns

\* StartBroadcaster returned after a task that had published ended
JoinBarrierWitness ==
  /\ mainPc = "returned"
  /\ startErr = ""
  /\ \E i \in Tasks : pc[i] = "done" /\ cycles[i] >= 1 /\ published[i] >= 1

\* C13: the pod block of a built advertisement is "<a>.<b>.0.0/16" when the
\* block of the first node has at least two dot-separated parts a, b, ..., and
\* "172.17.0.0/16" otherwise; the other nodes do not matter.
PodCIDRFromFirstNode ==
  build.pc = "done" =>
    LET first == build.nodes[1].podCIDR
        got == build.adv.Network.PodCIDR
    IN  /\ first = "10.32.0.5/24" => got = "10.32.0.0/16"
        /\ first = "192.168.7.0/24" => got = "192.168.0.0/16"
        /\ first = "10.244" => got = "10.244.0.0/16"
        /\ first = "nocidr" => got = "172.17.0.0/16"
        /\ first = "" => got = "172.17.0.0/16"
        /\ first \in {"10.32.0.5/24", "192.168.7.0/24", "10.244", "nocidr", ""}

\* the block of the first node has two parts and the second node has none
PodCIDRWitness ==
  /\ build.pc = "done"
  /\ Len(build.nodes) = 2
  /\ build.nodes[1].podCIDR = "10.244"
  /\ build.nodes[2].podCIDR = "nocidr"
  /\ build.adv.Network.PodCIDR = "10.244.0.0/16"

\* the nodes of a node list
NodesOf(nodeList) == {nodeList[k] : k \in 1..Len(nodeList)}

\* how many entries of a node list are the node n
Occurrences(nodeList, n) == Cardinality({k \in 1..Len(nodeList) : nodeList[k] = n})

RECURSIVE TotalOver(_, _, _)
\* the allocatable quantity of one kind, added up over the nodes S of a node
\* list, each counted as often as the list holds it
TotalOver(S, kind, nodeList) ==
  IF S = {} THEN 0
  ELSE LET n == CHOOSE x \in S : TRUE
       IN  n.allocatable[kind] * Occurrences(nodeList, n)
             + TotalOver(S \ {n}, kind, nodeList)

\* C14: for every node list, the empty one included, GetClusterResources
\* returns cpu, memory and pods totals equal to the sums of the nodes'
\* allocatable values; for the empty list the three are zero and there is no
\* image.
TotalsAreExactSums ==
  build.pc # "off" =>
    (build.resPc = "done" =>
       /\ DOMAIN build.res.availability = {"cpu", "memory", "pods"}
       /\ \A kind \in {"cpu", "memory", "pods"} :
            build.res.availability[kind] = TotalOver(NodesOf(build.nodes), kind, build.nodes)
       /\ build.nodes = <<>> =>
            /\ \A kind \in {"cpu", "memory", "pods"} : build.res.availability[kind] = 0
            /\ build.res.images = <<>>)

\* the totals of a two-node list
TotalsWitness ==
  /\ build.pc # "off"
  /\ build.resPc = "done"
  /\ build.nodes = <<NodeA, NodeE>>
  /\ build.res.availability["cpu"] = 20
  /\ build.res.availability["memory"] = 72
  /\ build.res.availability["pods"] = 360

\* C15: a publish cycle whose node listing succeeded with an empty list does
\* not crash the task: no task that holds a remote client is stopped by a
\* panic with an empty node list in hand.
EmptyListingDoesNotCrash ==
  \A i \in Tasks :
    (remoteClient[i] /\ nodes[i] = <<>>) => pc[i] # "panic"

\* C16: a task makes at most RetryBudget connection attempts, every one of
\* them before its first publish cycle and in the connection loop, and a task
\* that returned never runs again.
ConnectOncePerLifetime ==
  /\ [](\A i \in Tasks : Len(attempts[i]) <= RetryBudget)
  /\ [][\A i \in Tasks :
          /\ attempts'[i] # attempts[i] =>
               (pc[i] = "connect" /\ cycles[i] = 0 /\ ~InPublishLoop(i))
          /\ InPublishLoop(i) => pc'[i] \notin {"connect", "retry_sleep", "start"}
          /\ pc[i] = "done" => (pc'[i] = "done" /\ attempts'[i] = attempts[i])]_vars

\* a task connected at its third attempt, ran two cycles, the second one with
\* a failed publish, and made no further attempt
ConnectOncePerLifetimeWitness ==
  \E i \in Tasks :
    /\ attempts[i] = <<FALSE, FALSE, TRUE>>
    /\ cycles[i] = 2
    /\ err[i] = "CreateOrUpdate"
    /\ pc[i] = "cycle_sleep"

\* C17: the retry delay elapses only between two attempts: a task that
\* connected after k failed attempts has waited k delays, and a task whose
\* attempts all failed has ended after RetryBudget - 1 delays.
DelayOnlyBetweenAttempts ==
  \A i \in Tasks :
    /\ (pc[i] = "loop" /\ cycles[i] = 0 /\ remoteClient[i]) =>
         elapsed[i] = (Len(attempts[i]) - 1) * RetryDelay
    /\ (pc[i] = "done" /\ Len(attempts[i]) = RetryBudget /\ ~remoteClient[i]) =>
         elapsed[i] = (RetryBudget - 1) * RetryDelay

\* C18: one peer has at most one activity besides its publish loop: the
\* running watcher, and no goroutine blocked on the Once.
BoundedActivitiesPerPeer ==
  \A i \in Tasks :
    (IF onceState[i] = "running" THEN 1 ELSE 0) + blocked[i] <= 1

\* the image entries of a node list, node by node
ReportedImages(nodeList) ==
  UNION { {nodeList[k].images[j] : j \in 1..Len(nodeList[k].images)} :
          k \in 1..Len(nodeList) }

\* C19: the images returned by GetClusterResources are a set union: every
\* image reported by a node is in the result, and none is in it twice.
ImagesAreSetUnion ==
  (build.pc # "off" /\ build.resPc = "done") =>
    LET images == build.res.images
    IN  /\ {images[k] : k \in 1..Len(images)} = ReportedImages(build.nodes)
        /\ \A j, k \in 1..Len(images) : images[j] = images[k] => j = k

====
